---- MODULE Spec2Model ----
(***************************************************************************)
(* Model of the hand-sign validation backend (Express + Mongoose).         *)
(*                                                                         *)
(* The repository holds two builds of the same server: src/index.js and    *)
(* src/unnamed/part_000.  They are identical up to line 186 (schemas,      *)
(* users, the five handlers, listen) and differ only in seedDatabase:      *)
(* index.js inserts labels and videos when the collection is empty,        *)
(* part_000 inserts labels when empty and upserts videos in batches.       *)
(* The variable build says which of the two is running.                    *)
(***************************************************************************)
EXTENDS Integers, Sequences, FiniteSets, TLC

VARIABLES
    build,          \* "index" or "part_000": which file is the running server
    handsignsFile,  \* data/handsigns.json on disk
    videosFile,     \* data/videos.json on disk
    handSigns,      \* HandSign collection, in insertion order
    videos,         \* Video collection, in insertion order
    results,        \* ValidationResult collection, in insertion order
    users,          \* the in-memory users array
    proc,           \* "down" or "up": the node process
    runs,           \* how many times the process has been started
    conn,           \* mongoose connection: "none", "connecting", "open", "failed"
    listening,      \* app.listen has been called
    openListener,   \* the once("open") listener is still registered
    opens,          \* "open" events emitted in this run
    seedStarts,     \* calls of seedDatabase in this run
    seed,           \* the running seedDatabase call: position and locals
    seedLog,        \* history: one entry per seedDatabase call, over all runs
    faults,         \* store operations that failed for a reason of the store
    now,            \* the clock read by new Date()
    req,            \* the HTTP requests in flight or answered, by slot
    lastWrite       \* history: per (userId, videoId), the last upsert applied

vars == <<build, handsignsFile, videosFile, handSigns, videos, results, users,
          proc, runs, conn, listening, openListener, opens, seedStarts, seed,
          seedLog, faults, now, req, lastWrite>>

storeVars == <<handSigns, videos, results>>
fileVars == <<build, handsignsFile, videosFile>>
procVars == <<proc, runs, conn, listening, openListener, opens, seedStarts>>

-----------------------------------------------------------------------------
(* Bounds of the model *)

MaxVideos == 3      \* entries of videos.json
MaxFaults == 1      \* store operations that fail on the store's side
MaxRuns == 2        \* process starts
MaxOpens == 2       \* "open" events of one run (the first, then reconnects)
MaxClock == 3       \* readings of the clock

\* const BATCH_SIZE = 1000, scaled down so that videos.json spans several
\* batches within MaxVideos entries.
BATCH_SIZE == 2

\* The HTTP requests that can be in flight together
Slots == {1, 2}

-----------------------------------------------------------------------------
(* JavaScript values of request fields: undefined, numbers and strings *)

Undef == [t |-> "undefined", n |-> 0, s |-> ""]
Num(k) == [t |-> "number", n |-> k, s |-> ""]
Str(x) == [t |-> "string", n |-> 0, s |-> x]

\* !x, and !x with 0 taken for a value
FalsyNoZero(x) == x.t = "undefined" \/ (x.t = "string" /\ x.s = "")
Falsy(x) ==
    \/ x.t = "undefined"
    \/ (x.t = "number" /\ x.n = 0)
    \/ (x.t = "string" /\ x.s = "")

\* The strings of the model that differ from another one in case only, folded.
Lower(x) ==
    CASE x = "User1" -> "user1"
      [] x = "PASSWORD1" -> "password1"
      [] OTHER -> x

\* a === b for a string b of the program, and the same ignoring case
StrictEqFolded(a, b) == a.t = "string" /\ Lower(a.s) = Lower(b)
StrictEq(a, b) == a.t = "string" /\ a.s = b

-----------------------------------------------------------------------------
(* Bundled data files *)

PathNames == <<"v1", "v2", "v3", "v4", "v5">>

VideoEntry(i) ==
    [id |-> PathNames[i], path |-> PathNames[i],
     correctSign |-> IF i % 2 = 1 THEN "A" ELSE "B"]

VideosData == [i \in 1..MaxVideos |-> VideoEntry(i)]

\* state: "absent" (no such file), "malformed" (JSON.parse throws),
\* "notarray" (valid JSON that is neither an array nor a document of the
\* collection, such as {} or a number), "ok" (an array, in data)
FileAbsent == [state |-> "absent", data |-> <<>>]
FileMalformed == [state |-> "malformed", data |-> <<>>]
FileNotArray == [state |-> "notarray", data |-> <<>>]
FileOk(d) == [state |-> "ok", data |-> d]

HandsignsFiles ==
    {FileAbsent, FileMalformed, FileOk(<<"A", "B">>), FileOk(<<"A", "A">>)}

VideosFiles == {FileAbsent, FileMalformed, FileNotArray, FileOk(VideosData)}

Builds == {"index", "part_000"}

-----------------------------------------------------------------------------
(* The store: three collections, each with a unique index *)

Min(a, b) == IF a < b THEN a ELSE b

\* Model.countDocuments()
CountDocuments(coll) == Len(coll)

\* HandSignSchema: name is unique
SignNameFree(coll, name) == \A i \in DOMAIN coll : coll[i].name # name

\* VideoSchema: id is unique
VideoIdFree(coll, id) == \A i \in DOMAIN coll : coll[i].id # id

\* HandSign.insertMany(docs), ordered: documents are inserted in order and the
\* first duplicate name stops the operation with E11000.
RECURSIVE InsertManySigns(_, _)
InsertManySigns(coll, names) ==
    IF names = <<>> THEN [coll |-> coll, err |-> FALSE]
    ELSE IF ~SignNameFree(coll, Head(names)) THEN [coll |-> coll, err |-> TRUE]
    ELSE InsertManySigns(Append(coll, [name |-> Head(names)]), Tail(names))

\* Video.insertMany(videosData), ordered, the documents as they are in the file
RECURSIVE InsertManyVideos(_, _)
InsertManyVideos(coll, docs) ==
    IF docs = <<>> THEN [coll |-> coll, err |-> FALSE]
    ELSE IF ~VideoIdFree(coll, Head(docs).id) THEN [coll |-> coll, err |-> TRUE]
    ELSE InsertManyVideos(Append(coll, Head(docs)), Tail(docs))

\* updateOne: {filter: {id: video.path}, update: {$set: {path, correctSign}},
\* upsert: true}
UpdateOneVideo(coll, video) ==
    IF VideoIdFree(coll, video.path)
    THEN Append(coll, [id |-> video.path, path |-> video.path,
                       correctSign |-> video.correctSign])
    ELSE LET i == CHOOSE j \in DOMAIN coll :
                      /\ coll[j].id = video.path
                      /\ \A k \in DOMAIN coll : coll[k].id = video.path => j <= k
         IN [coll EXCEPT ![i] = [id |-> coll[i].id, path |-> video.path,
                                 correctSign |-> video.correctSign]]

\* Video.bulkWrite(bulkOps), ordered: the operations are applied in order
RECURSIVE BulkWrite(_, _)
BulkWrite(coll, batch) ==
    IF batch = <<>> THEN coll
    ELSE BulkWrite(UpdateOneVideo(coll, Head(batch)), Tail(batch))

\* A store operation can fail on the store's side (at most MaxFaults times)
FaultChoices == IF faults < MaxFaults THEN {FALSE, TRUE} ELSE {FALSE}

-----------------------------------------------------------------------------
(* Requests: empty slots *)

NoIn == [none |-> TRUE]
NoOut == [none |-> TRUE]
NoError == "none"
FreeSlot == [kind |-> "none", pc |-> "free", in |-> NoIn, status |-> 0,
             out |-> NoOut, err |-> NoError]

-----------------------------------------------------------------------------
(* seedDatabase *)

SeedIdle == [pc |-> "idle", i |-> 0, escaped |-> FALSE]

\* catch (error) { console.error(...) }: the outer try/catch of seedDatabase
\* (SeedRethrow: the exception leaves seedDatabase instead)
SeedRethrow == [pc |-> "done", i |-> 0, escaped |-> TRUE]
SeedCatch == [pc |-> "done", i |-> 0, escaped |-> FALSE]

SeedReturn == [pc |-> "done", i |-> 0, escaped |-> FALSE]

SeedAt(pc, i) == [pc |-> pc, i |-> i, escaped |-> FALSE]

\* What the label step does with handsigns.json once signCount === 0:
\* "insert" (parsed, insertMany follows), "skip" (logged, on to the videos),
\* "throw" (an exception, to the outer catch)
LabelFileOutcome ==
    CASE handsignsFile.state = "ok" -> "insert"
      [] handsignsFile.state = "absent" ->
            IF build = "part_000" THEN "skip" ELSE "throw"
      [] OTHER -> "throw"

\* part_000: the code between the label step and await Video.countDocuments():
\* existsSync, JSON.parse, Array.isArray, each with its own return.
\* index.js: Video.countDocuments() comes first, the file is read after it.
SeedVideoStep ==
    IF build = "index" THEN SeedAt("videoCount", 0)
    ELSE IF videosFile.state = "ok" THEN SeedAt("videoCount", 0)
    ELSE SeedReturn

\* History kept for the properties: what the current seedDatabase call did
LogNew ==
    [run |-> runs, signs |-> 0, vids |-> 0, errs |-> 0, faulted |-> FALSE,
     countFault |-> FALSE, batches |-> {}, failed |-> {}, done |-> FALSE,
     results0 |-> results]

Cur == Len(seedLog)

\* signs, vids: documents inserted by this step; errs: console.error calls;
\* fault: a store operation of this step failed on the store's side
SeedLogged(s, signs, vids, errs, fault) ==
    [seedLog EXCEPT ![Cur] =
        [@ EXCEPT !.signs = @ + signs,
                  !.vids = @ + vids,
                  !.errs = @ + errs,
                  !.faulted = @ \/ fault,
                  !.done = (s.pc = "done")]]

\* console.error calls on the way from one position to the next: one in the
\* outer catch, one in each early return of the video step, one for a
\* handsigns.json that part_000 finds absent
ErrsOnThrow == 1
ErrsOnVideoStep ==
    IF build = "part_000" /\ videosFile.state # "ok" THEN 1 ELSE 0
ErrsOnLabelSkip ==
    IF build = "part_000" /\ handsignsFile.state = "absent" THEN 1 ELSE 0

\* const signCount = await HandSign.countDocuments(); if (signCount === 0) ...
SeedSignCount ==
    /\ proc = "up" /\ seed.pc = "signCount"
    /\ \E fail \in FaultChoices :
         /\ faults' = faults + (IF fail THEN 1 ELSE 0)
         /\ LET next ==
                  IF fail THEN SeedCatch
                  ELSE IF CountDocuments(handSigns) = 0
                       THEN CASE LabelFileOutcome = "insert" -> SeedAt("insertSigns", 0)
                              [] LabelFileOutcome = "skip" -> SeedVideoStep
                              [] OTHER -> SeedCatch
                       ELSE SeedVideoStep
                errs ==
                  IF fail THEN ErrsOnThrow
                  ELSE IF CountDocuments(handSigns) = 0
                       THEN CASE LabelFileOutcome = "insert" -> 0
                              [] LabelFileOutcome = "skip" ->
                                    ErrsOnLabelSkip + ErrsOnVideoStep
                              [] OTHER -> ErrsOnThrow
                       ELSE ErrsOnVideoStep
            IN /\ seed' = next
               /\ seedLog' = SeedLogged(next, 0, 0, errs, fail)
    /\ UNCHANGED <<fileVars, storeVars, users, procVars, now, req, lastWrite>>

\* await HandSign.insertMany(handSignDocs)
SeedInsertSigns ==
    /\ proc = "up" /\ seed.pc = "insertSigns"
    /\ \E fail \in FaultChoices :
       \E k \in 0..Len(handsignsFile.data) :
         /\ fail => k < Len(handsignsFile.data)
         /\ ~fail => k = Len(handsignsFile.data)
         /\ faults' = faults + (IF fail THEN 1 ELSE 0)
         /\ LET r == InsertManySigns(handSigns, SubSeq(handsignsFile.data, 1, k))
                next == IF fail \/ r.err THEN SeedCatch ELSE SeedVideoStep
            IN /\ handSigns' = r.coll
               /\ seed' = next
               /\ seedLog' = SeedLogged(next, Len(r.coll) - Len(handSigns), 0,
                                        IF fail \/ r.err THEN ErrsOnThrow
                                        ELSE ErrsOnVideoStep,
                                        fail)
    /\ UNCHANGED <<fileVars, videos, results, users, procVars, now, req, lastWrite>>

\* index.js: const videoCount = await Video.countDocuments();
\*           if (videoCount === 0) { read and parse videos.json ... }
\* part_000: const existingCount = await Video.countDocuments(); then the loop
SeedVideoCount ==
    /\ proc = "up" /\ seed.pc = "videoCount"
    /\ \E fail \in FaultChoices :
         /\ faults' = faults + (IF fail THEN 1 ELSE 0)
         /\ LET next ==
                  IF fail THEN SeedCatch
                  ELSE IF build = "index"
                       THEN IF CountDocuments(videos) = 0
                            THEN IF videosFile.state = "ok"
                                 THEN SeedAt("insertVideos", 0)
                                 ELSE SeedCatch
                            ELSE SeedReturn
                       ELSE IF 1 <= Len(videosFile.data)
                            THEN SeedAt("bulk", 1)
                            ELSE SeedAt("finalCount", 0)
                errs ==
                  IF fail \/ (build = "index" /\ CountDocuments(videos) = 0
                                /\ videosFile.state # "ok")
                  THEN ErrsOnThrow ELSE 0
            IN /\ seed' = next
               /\ seedLog' = [SeedLogged(next, 0, 0, errs, fail)
                                 EXCEPT ![Cur].countFault = fail]
    /\ UNCHANGED <<fileVars, storeVars, users, procVars, now, req, lastWrite>>

\* index.js: await Video.insertMany(videosData)
SeedInsertVideos ==
    /\ proc = "up" /\ seed.pc = "insertVideos"
    /\ \E fail \in FaultChoices :
       \E k \in 0..Len(videosFile.data) :
         /\ fail => k < Len(videosFile.data)
         /\ ~fail => k = Len(videosFile.data)
         /\ faults' = faults + (IF fail THEN 1 ELSE 0)
         /\ LET r == InsertManyVideos(videos, SubSeq(videosFile.data, 1, k))
                next == IF fail \/ r.err THEN SeedCatch ELSE SeedReturn
            IN /\ videos' = r.coll
               /\ seed' = next
               /\ seedLog' = SeedLogged(next, 0, Len(r.coll) - Len(videos),
                                        IF fail \/ r.err THEN ErrsOnThrow ELSE 0,
                                        fail)
    /\ UNCHANGED <<fileVars, handSigns, results, users, procVars, now, req, lastWrite>>

\* part_000: after a batch, failed or not: i += BATCH_SIZE and the loop test
SeedNextBatch(i) ==
    IF i + BATCH_SIZE <= Len(videosFile.data)
    THEN SeedAt("bulk", i + BATCH_SIZE)
    ELSE SeedAt("finalCount", 0)

\* part_000: catch (batchError) { console.error(...) } inside the loop
SeedBatchCatch(i) == SeedNextBatch(i)

\* part_000: one turn of the loop:
\* batch = videosData.slice(i, i + BATCH_SIZE); await Video.bulkWrite(bulkOps)
SeedBulk ==
    /\ proc = "up" /\ seed.pc = "bulk"
    /\ LET i == seed.i
           batch == SubSeq(videosFile.data, i,
                           Min(i + BATCH_SIZE - 1, Len(videosFile.data)))
       IN \E fail \in FaultChoices :
          \E k \in 0..Len(batch) :
            /\ fail => k < Len(batch)
            /\ ~fail => k = Len(batch)
            /\ faults' = faults + (IF fail THEN 1 ELSE 0)
            /\ LET coll == BulkWrite(videos, SubSeq(batch, 1, k))
                   next == IF fail THEN SeedBatchCatch(i) ELSE SeedNextBatch(i)
               IN /\ videos' = coll
                  /\ seed' = next
                  /\ seedLog' =
                       [SeedLogged(next, 0, Len(coll) - Len(videos),
                                   IF fail THEN 1 ELSE 0, fail)
                          EXCEPT ![Cur].batches = @ \cup {i},
                                 ![Cur].failed = IF fail THEN @ \cup {i} ELSE @]
    /\ UNCHANGED <<fileVars, handSigns, results, users, procVars, now, req, lastWrite>>

\* part_000: const finalCount = await Video.countDocuments(); and the report
SeedFinalCount ==
    /\ proc = "up" /\ seed.pc = "finalCount"
    /\ \E fail \in FaultChoices :
         /\ faults' = faults + (IF fail THEN 1 ELSE 0)
         /\ LET next == IF fail THEN SeedCatch ELSE SeedReturn
            IN /\ seed' = next
               /\ seedLog' = SeedLogged(next, 0, 0,
                                        IF fail THEN ErrsOnThrow ELSE 0, fail)
    /\ UNCHANGED <<fileVars, storeVars, users, procVars, now, req, lastWrite>>

SeedStep ==
    \/ SeedSignCount
    \/ SeedInsertSigns
    \/ SeedVideoCount
    \/ SeedInsertVideos
    \/ SeedBulk
    \/ SeedFinalCount

-----------------------------------------------------------------------------
(* Process bootstrap and the connection *)

\* The module's top-level code, run to its end: mongoose.connect(...) is
\* started, app.listen(PORT) is called, the once("open") listener is registered.
Boot ==
    /\ proc = "down" /\ runs < MaxRuns
    /\ proc' = "up"
    /\ runs' = runs + 1
    /\ conn' = "connecting"
    /\ listening' = TRUE
    /\ openListener' = TRUE
    /\ opens' = 0
    /\ seedStarts' = 0
    /\ seed' = SeedIdle
    /\ req' = [s \in Slots |-> FreeSlot]
    /\ UNCHANGED <<fileVars, storeVars, users, seedLog, faults, now, lastWrite>>

\* mongoose.connection.once("open", ...): the listener is removed when it runs
\* (ListenerKept: on("open", ...) keeps it)
ListenerKept == TRUE
ListenerAfterOpen == FALSE

\* The connection emits "open": the listener, if still registered, calls
\* seedDatabase(), which runs up to its first await.
EmitOpen ==
    /\ opens' = opens + 1
    /\ IF openListener
       THEN /\ openListener' = ListenerAfterOpen
            /\ seedStarts' = seedStarts + 1
            /\ seed' = SeedAt("signCount", 0)
            /\ seedLog' = Append(seedLog, LogNew)
       ELSE UNCHANGED <<openListener, seedStarts, seed, seedLog>>

\* mongoose.connect resolves: .then(() => console.log("MongoDB connected ..."))
ConnOpen ==
    /\ proc = "up" /\ conn = "connecting"
    /\ conn' = "open"
    /\ EmitOpen
    /\ UNCHANGED <<fileVars, storeVars, users, proc, runs, listening, faults,
                   now, req, lastWrite>>

\* mongoose.connect rejects: .catch((err) => console.error(...)); the initial
\* connection is not retried.
ConnFail ==
    /\ proc = "up" /\ conn = "connecting"
    /\ conn' = "failed"
    /\ UNCHANGED <<fileVars, storeVars, users, proc, runs, listening,
                   openListener, opens, seedStarts, seed, seedLog, faults, now,
                   req, lastWrite>>

\* The driver loses the server and finds it again; the connection emits "open"
\* once more. The listener is gone by then (once), so nothing is started.
Reconnect ==
    /\ proc = "up" /\ conn = "open" /\ opens < MaxOpens
    /\ EmitOpen
    /\ UNCHANGED <<fileVars, storeVars, users, proc, runs, conn, listening,
                   faults, now, req, lastWrite>>

\* The process ends (a deploy, a crash of the host); the store keeps its data.
Stop ==
    /\ proc = "up"
    /\ proc' = "down"
    /\ conn' = "none"
    /\ listening' = FALSE
    /\ openListener' = FALSE
    /\ opens' = 0
    /\ seedStarts' = 0
    /\ seed' = SeedIdle
    /\ req' = [s \in Slots |-> FreeSlot]
    /\ UNCHANGED <<fileVars, storeVars, users, runs, seedLog, faults, now,
                   lastWrite>>

-----------------------------------------------------------------------------
(* Request handling: what the five handlers share *)

Serving == proc = "up" /\ listening

\* A store operation issued by a handler. While the connection is not open
\* mongoose buffers the operation and rejects it when the buffer times out;
\* once it is open the operation runs, and can fail on the store's side.
ReqFaultChoices == IF conn = "open" THEN FaultChoices ELSE {TRUE}
ReqFaultCount(fail) == IF fail /\ conn = "open" THEN faults + 1 ELSE faults

Answer(s, status, out) ==
    req' = [req EXCEPT ![s] = [@ EXCEPT !.pc = "done", !.status = status,
                                        !.out = out]]

\* The same from a catch block; err says what was thrown: "E11000" (the
\* unique index), "store" (any other failure of a store operation, or the
\* buffer timing out), "cast" (a CastError of mongoose)
AnswerCaught(s, status, out, err) ==
    req' = [req EXCEPT ![s] = [@ EXCEPT !.pc = "done", !.status = status,
                                        !.out = out, !.err = err]]

\* The client has its response; the slot serves the next request.
Forget(s) ==
    /\ Serving /\ req[s].pc = "done"
    /\ req' = [req EXCEPT ![s] = FreeSlot]
    /\ UNCHANGED <<fileVars, storeVars, users, procVars, seed, seedLog, faults,
                   now, lastWrite>>

-----------------------------------------------------------------------------
(* POST /api/login *)

LoginNames == {Undef, Str("user1"), Str("User1"), Str("user2")}
LoginPasswords == {Undef, Str("password1"), Str("PASSWORD1"), Str("password2")}

\* users.find((u) => u.username === username && u.password === password):
\* the index of the first match, 0 when there is none
UsersFind(username, password) ==
    LET hits == {i \in DOMAIN users :
                    /\ StrictEq(username, users[i].username)
                    /\ StrictEq(password, users[i].password)}
    IN IF hits = {} THEN 0
       ELSE CHOOSE i \in hits : \A j \in hits : i <= j

\* const { password, ...userWithoutPassword } = user
WithoutPassword(user) == [f \in DOMAIN user \ {"password"} |-> user[f]]

LoginResponse(username, password) ==
    LET i == UsersFind(username, password)
    IN IF i # 0
       THEN [status |-> 200,
             out |-> [success |-> TRUE, user |-> WithoutPassword(users[i])]]
       ELSE [status |-> 401,
             out |-> [success |-> FALSE, message |-> "Invalid credentials"]]

\* The handler is synchronous: request and response in one step.
Login(s, names, passwords) ==
    /\ Serving /\ req[s].pc = "free"
    /\ \E username \in names, password \in passwords :
         LET r == LoginResponse(username, password)
         IN req' = [req EXCEPT ![s] =
                       [kind |-> "login", pc |-> "done",
                        in |-> [username |-> username, password |-> password],
                        status |-> r.status, out |-> r.out, err |-> NoError]]
    /\ UNCHANGED <<fileVars, storeVars, users, procVars, seed, seedLog, faults,
                   now, lastWrite>>

-----------------------------------------------------------------------------
(* GET /api/handsigns and GET /api/videos *)

NameRank(name) == IF name = "A" THEN 1 ELSE IF name = "B" THEN 2 ELSE 3

\* HandSign.find().sort({ name: 1 }), then signs.map((sign) => sign.name)
SortedNames(coll) ==
    SortSeq([i \in DOMAIN coll |-> coll[i].name],
            LAMBDA a, b : NameRank(a) < NameRank(b))

ListRequest(s, kind) ==
    /\ Serving /\ req[s].pc = "free"
    /\ req' = [req EXCEPT ![s] = [kind |-> kind, pc |-> "find", in |-> NoIn,
                                  status |-> 0, out |-> NoOut, err |-> NoError]]
    /\ UNCHANGED <<fileVars, storeVars, users, procVars, seed, seedLog, faults,
                   now, lastWrite>>

HandsignsRequest(s) == ListRequest(s, "handsigns")

HandsignsFind(s) ==
    /\ Serving /\ req[s].kind = "handsigns" /\ req[s].pc = "find"
    /\ \E fail \in ReqFaultChoices :
         /\ faults' = ReqFaultCount(fail)
         /\ IF fail
            THEN AnswerCaught(s, 500,
                              [success |-> FALSE,
                               message |-> "Failed to load hand signs"], "store")
            ELSE Answer(s, 200, [list |-> SortedNames(handSigns)])
    /\ UNCHANGED <<fileVars, storeVars, users, procVars, seed, seedLog, now,
                   lastWrite>>

VideosRequest(s) == ListRequest(s, "videos")

\* Video.find({}, { _id: 0, id: 1, path: 1, correctSign: 1 })
VideosFind(s) ==
    /\ Serving /\ req[s].kind = "videos" /\ req[s].pc = "find"
    /\ \E fail \in ReqFaultChoices :
         /\ faults' = ReqFaultCount(fail)
         /\ IF fail
            THEN AnswerCaught(s, 500,
                              [success |-> FALSE,
                               message |-> "Failed to load videos"], "store")
            ELSE Answer(s, 200, [list |-> videos])
    /\ UNCHANGED <<fileVars, storeVars, users, procVars, seed, seedLog, now,
                   lastWrite>>

-----------------------------------------------------------------------------
(* POST /api/submit *)

SubmitUserIds == {Undef, Num(0), Num(1), Str("x")}
SubmitVideoIds == {Undef, Str(""), Str("v1"), Str("v2")}
SubmitSigns == {Undef, Str("A"), Str("B")}

\* Well-formed submissions of two users
ValidUserIds == {Num(1), Num(2)}
ValidVideoIds == {Str("v1"), Str("v2")}
ValidSigns == {Str("A")}

\* if (!userId || !videoId || !selectedSign)
MissingFields(body) ==
    Falsy(body.userId) \/ Falsy(body.videoId) \/ Falsy(body.selectedSign)

\* ValidationResultSchema casts userId to Number: a number stays, a string
\* that is no number is a CastError
CastFails(body) == body.userId.t # "number"

\* The documents of a pair
ResultAt(coll, userId, videoId) ==
    {i \in DOMAIN coll : coll[i].userId = userId /\ coll[i].videoId = videoId}

\* ValidationResultSchema.index({ userId: 1, videoId: 1 }, { unique: true }):
\* an insert is accepted when the pair is free (ResultPairFreeNoIndex: always)
ResultPairFreeNoIndex(coll, userId, videoId) == TRUE
ResultPairFree(coll, userId, videoId) == ResultAt(coll, userId, videoId) = {}

\* The update { selectedSign, timestamp: new Date() } applied to a document
\* (SetOnInsertOnly: applied on insert only, an existing document is kept)
SetOnInsertOnly(doc, selectedSign, timestamp) == doc
SetFields(doc, selectedSign, timestamp) ==
    [doc EXCEPT !.selectedSign = selectedSign, !.timestamp = timestamp]

\* error.code of what findOneAndUpdate throws
ErrorCode(err) == IF err = "E11000" THEN 11000 ELSE 0

\* if (error.code === 11000) 409, otherwise 500
ErrorStatus(err) == IF ErrorCode(err) = 11000 THEN 409 ELSE 500

ErrorOut(status) ==
    IF status = 409
    THEN [success |-> FALSE, message |-> "Validation already submitted."]
    ELSE [success |-> FALSE, message |-> "Failed to save validation"]

\* History: the upsert of request in is applied over the last one, old
Written(old, in) ==
    [set |-> TRUE, sign |-> in.selectedSign, ts |-> in.timestamp,
     prev |-> old.sign]

\* The handler up to its await: the presence check, then new Date() is read
\* and findOneAndUpdate is issued.
SubmitRequest(s, userIds, videoIds, signs) ==
    /\ Serving /\ req[s].pc = "free"
    /\ \E userId \in userIds, videoId \in videoIds, selectedSign \in signs :
         LET body == [userId |-> userId, videoId |-> videoId,
                      selectedSign |-> selectedSign]
         IN IF MissingFields(body)
            THEN /\ req' = [req EXCEPT ![s] =
                       [kind |-> "submit", pc |-> "done", in |-> [body |-> body],
                        status |-> 400,
                        out |-> [success |-> FALSE,
                                 message |-> "Missing required fields"],
                        err |-> NoError]]
                 /\ now' = now
            ELSE /\ now < MaxClock
                 /\ now' = now + 1
                 /\ IF CastFails(body)
                    THEN req' = [req EXCEPT ![s] =
                           [kind |-> "submit", pc |-> "done",
                            in |-> [body |-> body],
                            status |-> ErrorStatus("cast"),
                            out |-> ErrorOut(ErrorStatus("cast")),
                            err |-> "cast"]]
                    ELSE req' = [req EXCEPT ![s] =
                           [kind |-> "submit", pc |-> "upsert",
                            in |-> [body |-> body,
                                    userId |-> userId.n, videoId |-> videoId.s,
                                    selectedSign |-> selectedSign.s,
                                    timestamp |-> now],
                            status |-> 0, out |-> NoOut, err |-> NoError]]
    /\ UNCHANGED <<fileVars, storeVars, users, procVars, seed, seedLog, faults,
                   lastWrite>>

\* findOneAndUpdate at the store, first half: the document is looked up. One
\* that exists is updated in place; when there is none the store goes on to
\* insert.
SubmitUpsert(s) ==
    /\ Serving /\ req[s].kind = "submit" /\ req[s].pc = "upsert"
    /\ LET in == req[s].in
           at == ResultAt(results, in.userId, in.videoId)
       IN \E fail \in ReqFaultChoices :
            /\ faults' = ReqFaultCount(fail)
            /\ IF fail
               THEN /\ AnswerCaught(s, ErrorStatus("store"),
                                    ErrorOut(ErrorStatus("store")), "store")
                    /\ UNCHANGED <<results, lastWrite>>
               ELSE IF at # {}
               THEN LET i == CHOOSE j \in at : \A k \in at : j <= k
                        doc == SetFields(results[i], in.selectedSign, in.timestamp)
                    IN /\ results' = [results EXCEPT ![i] = doc]
                       /\ lastWrite' = [lastWrite EXCEPT
                                          ![<<in.userId, in.videoId>>] = Written(@, in)]
                       /\ Answer(s, 200, [success |-> TRUE, data |-> doc])
               ELSE /\ req' = [req EXCEPT ![s].pc = "insert"]
                    /\ UNCHANGED <<results, lastWrite>>
    /\ UNCHANGED <<fileVars, handSigns, videos, users, procVars, seed, seedLog, now>>

\* findOneAndUpdate at the store, second half: the insert of the upsert. If
\* another request has inserted the pair in between, the unique index rejects
\* the insert: the store either retries the operation as an update or lets
\* E11000 surface, depending on its version.
SubmitInsert(s) ==
    /\ Serving /\ req[s].kind = "submit" /\ req[s].pc = "insert"
    /\ LET in == req[s].in
           at == ResultAt(results, in.userId, in.videoId)
           new == [userId |-> in.userId, videoId |-> in.videoId,
                   selectedSign |-> in.selectedSign, timestamp |-> in.timestamp]
       IN IF ResultPairFree(results, in.userId, in.videoId)
          THEN /\ results' = Append(results, new)
               /\ lastWrite' = [lastWrite EXCEPT
                                  ![<<in.userId, in.videoId>>] = Written(@, in)]
               /\ Answer(s, 200, [success |-> TRUE, data |-> new])
          ELSE \/ LET i == CHOOSE j \in at : \A k \in at : j <= k
                      doc == SetFields(results[i], in.selectedSign, in.timestamp)
                  IN /\ results' = [results EXCEPT ![i] = doc]
                     /\ lastWrite' = [lastWrite EXCEPT
                                        ![<<in.userId, in.videoId>>] = Written(@, in)]
                     /\ Answer(s, 200, [success |-> TRUE, data |-> doc])
               \/ /\ AnswerCaught(s, ErrorStatus("E11000"),
                                  ErrorOut(ErrorStatus("E11000")), "E11000")
                  /\ UNCHANGED <<results, lastWrite>>
    /\ UNCHANGED <<fileVars, handSigns, videos, users, procVars, seed, seedLog,
                   faults, now>>

-----------------------------------------------------------------------------
(* GET /api/progress/:userId *)

\* The path parameter, as its characters
ProgressParams == {<<"1">>, <<"2">>, <<"1", "x">>, <<"x", "1">>, <<" ", "2">>}

DigitValue(c) ==
    CASE c = "0" -> 0 [] c = "1" -> 1 [] c = "2" -> 2 [] c = "3" -> 3
      [] c = "4" -> 4 [] c = "5" -> 5 [] c = "6" -> 6 [] c = "7" -> 7
      [] c = "8" -> 8 [] c = "9" -> 9 [] OTHER -> -1

RECURSIVE SkipSpaces(_)
SkipSpaces(str) ==
    IF str # <<>> /\ Head(str) = " " THEN SkipSpaces(Tail(str)) ELSE str

\* The digits at the front of str, as a number; acc is what was read so far
RECURSIVE ReadDigits(_, _)
ReadDigits(str, acc) ==
    IF str = <<>> \/ DigitValue(Head(str)) < 0 THEN acc
    ELSE ReadDigits(Tail(str), 10 * acc + DigitValue(Head(str)))

\* parseInt(userId, 10): leading white space is skipped, a sign is read, then
\* the longest run of digits; NaN when there is no digit
ParseInt(str) ==
    LET t == SkipSpaces(str)
        neg == t # <<>> /\ Head(t) = "-"
        u == IF t # <<>> /\ Head(t) \in {"-", "+"} THEN Tail(t) ELSE t
    IN IF u = <<>> \/ DigitValue(Head(u)) < 0
       THEN [nan |-> TRUE, v |-> 0]
       ELSE [nan |-> FALSE,
             v |-> IF neg THEN 0 - ReadDigits(u, 0) ELSE ReadDigits(u, 0)]

\* Math.round(x) for x = num / den >= 0: the nearest integer, halves upwards
\* (FloorDiv: Math.floor)
FloorDiv(num, den) == num \div den
RoundDiv(num, den) == (2 * num + den) \div (2 * den)

\* totalVideos > 0 ? Math.round((completedCount / totalVideos) * 100) : 0
Percentage(completedCount, totalVideos) ==
    IF totalVideos > 0 THEN RoundDiv(completedCount * 100, totalVideos) ELSE 0

\* ValidationResult.countDocuments({ userId: numericUserId })
CountResults(coll, userId) ==
    Cardinality({i \in DOMAIN coll : coll[i].userId = userId})

ProgressRequest(s, params) ==
    /\ Serving /\ req[s].pc = "free"
    /\ \E param \in params :
         LET numericUserId == ParseInt(param)
         IN IF numericUserId.nan
            THEN req' = [req EXCEPT ![s] =
                   [kind |-> "progress", pc |-> "done", in |-> [param |-> param],
                    status |-> 400,
                    out |-> [success |-> FALSE,
                             message |-> "Invalid user ID format"],
                    err |-> NoError]]
            ELSE req' = [req EXCEPT ![s] =
                   [kind |-> "progress", pc |-> "count1",
                    in |-> [param |-> param, numericUserId |-> numericUserId.v,
                            completedCount |-> 0],
                    status |-> 0, out |-> NoOut, err |-> NoError]]
    /\ UNCHANGED <<fileVars, storeVars, users, procVars, seed, seedLog, faults,
                   now, lastWrite>>

\* const completedCount = await ValidationResult.countDocuments({userId: ...})
ProgressCount1(s) ==
    /\ Serving /\ req[s].kind = "progress" /\ req[s].pc = "count1"
    /\ \E fail \in ReqFaultChoices :
         /\ faults' = ReqFaultCount(fail)
         /\ IF fail
            THEN AnswerCaught(s, 500,
                              [success |-> FALSE,
                               message |-> "Failed to get progress"], "store")
            ELSE req' = [req EXCEPT
                   ![s].pc = "count2",
                   ![s].in.completedCount =
                       CountResults(results, req[s].in.numericUserId)]
    /\ UNCHANGED <<fileVars, storeVars, users, procVars, seed, seedLog, now,
                   lastWrite>>

\* const totalVideos = await Video.countDocuments(); the percentage; res.json
ProgressCount2(s) ==
    /\ Serving /\ req[s].kind = "progress" /\ req[s].pc = "count2"
    /\ \E fail \in ReqFaultChoices :
         /\ faults' = ReqFaultCount(fail)
         /\ IF fail
            THEN AnswerCaught(s, 500,
                              [success |-> FALSE,
                               message |-> "Failed to get progress"], "store")
            ELSE LET completedCount == req[s].in.completedCount
                     totalVideos == CountDocuments(videos)
                 IN Answer(s, 200,
                           [completed |-> completedCount,
                            total |-> totalVideos,
                            percentage |-> Percentage(completedCount, totalVideos)])
    /\ UNCHANGED <<fileVars, storeVars, users, procVars, seed, seedLog, now,
                   lastWrite>>

-----------------------------------------------------------------------------
(* Initial states *)

\* const users = [...]
UsersList ==
    << [id |-> 1, username |-> "user1", password |-> "password1", name |-> "User One"],
       [id |-> 2, username |-> "user2", password |-> "password2", name |-> "User Two"],
       [id |-> 3, username |-> "user3", password |-> "password3", name |-> "User Three"],
       [id |-> 4, username |-> "user4", password |-> "password4", name |-> "User Four"] >>

Pairs == {<<1, "v1">>, <<1, "v2">>, <<2, "v1">>, <<2, "v2">>}
NoWrite == [set |-> FALSE, sign |-> "", ts |-> 0, prev |-> ""]

\* A process not yet started, in front of an empty database
InitDown ==
    /\ handSigns = <<>>
    /\ videos = <<>>
    /\ users = UsersList
    /\ proc = "down"
    /\ runs = 0
    /\ conn = "none"
    /\ listening = FALSE
    /\ openListener = FALSE
    /\ opens = 0
    /\ seedStarts = 0
    /\ seed = SeedIdle
    /\ seedLog = <<>>
    /\ faults = 0
    /\ now = 1
    /\ req = [s \in Slots |-> FreeSlot]
    /\ lastWrite = [p \in Pairs |-> NoWrite]

\* Seeding, over every state of the two bundled files and both builds. The
\* database may already hold a ValidationResult written by an earlier process.
InitSeed ==
    /\ InitDown
    /\ build \in Builds
    /\ handsignsFile \in HandsignsFiles
    /\ videosFile \in VideosFiles
    /\ results \in {<<>>, <<[userId |-> 1, videoId |-> "v1",
                            selectedSign |-> "A", timestamp |-> 0]>>}

\* A server that has started, connected and finished seeding from two
\* well-formed files (build part_000): what requests usually meet.
SeededLog ==
    [run |-> 1, signs |-> 2, vids |-> MaxVideos, errs |-> 0,
     faulted |-> FALSE, countFault |-> FALSE,
     batches |-> {i \in 1..MaxVideos : i % BATCH_SIZE = 1 % BATCH_SIZE},
     failed |-> {}, done |-> TRUE, results0 |-> <<>>]

InitFiles ==
    /\ build = "part_000"
    /\ handsignsFile = FileOk(<<"A", "B">>)
    /\ videosFile = FileOk(VideosData)

InitServing ==
    /\ InitFiles
    /\ users = UsersList
    /\ proc = "up"
    /\ runs = 1
    /\ listening = TRUE
    /\ faults = 0
    /\ now = 1
    /\ req = [s \in Slots |-> FreeSlot]
    /\ lastWrite = [p \in Pairs |-> NoWrite]
    /\ results = <<>>
    /\ conn = "open"
    /\ openListener = FALSE
    /\ opens = 1
    /\ seedStarts = 1
    /\ seed = SeedReturn
    /\ seedLog = <<SeededLog>>
    /\ handSigns = <<[name |-> "A"], [name |-> "B"]>>
    /\ videos = BulkWrite(<<>>, VideosData)

\* POST /api/submit alone, two requests overlapping at the store
NextSubmit ==
    \/ \E s \in Slots : SubmitRequest(s, SubmitUserIds, SubmitVideoIds, SubmitSigns)
    \/ \E s \in Slots : SubmitUpsert(s)
    \/ \E s \in Slots : SubmitInsert(s)
    \/ \E s \in Slots : Forget(s)

SpecSubmit == InitServing /\ [][NextSubmit]_vars

\* POST /api/login alone
NextLogin ==
    \/ \E s \in Slots : Login(s, LoginNames, LoginPasswords)
    \/ \E s \in Slots : Forget(s)

SpecLogin == InitServing /\ [][NextLogin]_vars

\* A first start on an empty database with both files well-formed
Init ==
    /\ InitDown
    /\ InitFiles
    /\ results = <<>>

\* Seeding racing with well-formed submissions and progress queries
NextProgress ==
    \/ Boot
    \/ ConnOpen
    \/ SeedStep
    \/ SubmitRequest(1, ValidUserIds, ValidVideoIds, ValidSigns)
    \/ SubmitUpsert(1)
    \/ SubmitInsert(1)
    \/ ProgressRequest(2, ProgressParams)
    \/ ProgressCount1(2)
    \/ ProgressCount2(2)
    \/ \E s \in Slots : Forget(s)

\* The same under either build
InitBoot ==
    /\ InitDown
    /\ build \in Builds
    /\ handsignsFile = FileOk(<<"A", "B">>)
    /\ videosFile = FileOk(VideosData)
    /\ results = <<>>

SpecProgress == InitBoot /\ [][NextProgress]_vars

\* One run of the process: start, connection, reconnects and seeding, with a
\* login beside one request of each endpoint that uses the store. (Restarts
\* are explored with seeding alone, in SpecSeed.)

NextBoot ==
    \/ Boot
    \/ ConnOpen
    \/ ConnFail
    \/ Reconnect
    \/ SeedStep
    \/ Login(2, {Str("user1")}, {Str("password1"), Str("password2")})
    \/ HandsignsRequest(1)
    \/ HandsignsFind(1)
    \/ VideosRequest(1)
    \/ VideosFind(1)
    \/ SubmitRequest(1, {Num(1)}, {Str("v1")}, {Undef, Str("A")})
    \/ SubmitUpsert(1)
    \/ SubmitInsert(1)
    \/ ProgressRequest(1, {<<"1">>, <<"x", "1">>})
    \/ ProgressCount1(1)
    \/ ProgressCount2(1)
    \/ \E s \in Slots : Forget(s)

SpecBoot == InitBoot /\ [][NextBoot]_vars

\* The whole server: every action, every input of the model
Next ==
    \/ Boot
    \/ ConnOpen
    \/ ConnFail
    \/ Reconnect
    \/ Stop
    \/ SeedStep
    \/ \E s \in Slots : Login(s, LoginNames, LoginPasswords)
    \/ \E s \in Slots : HandsignsRequest(s)
    \/ \E s \in Slots : HandsignsFind(s)
    \/ \E s \in Slots : VideosRequest(s)
    \/ \E s \in Slots : VideosFind(s)
    \/ \E s \in Slots : SubmitRequest(s, SubmitUserIds \cup ValidUserIds,
                                      SubmitVideoIds, SubmitSigns)
    \/ \E s \in Slots : SubmitUpsert(s)
    \/ \E s \in Slots : SubmitInsert(s)
    \/ \E s \in Slots : ProgressRequest(s, ProgressParams)
    \/ \E s \in Slots : ProgressCount1(s)
    \/ \E s \in Slots : ProgressCount2(s)
    \/ \E s \in Slots : Forget(s)

Spec == Init /\ [][Next]_vars

NextSeed ==
    \/ Boot
    \/ ConnOpen
    \/ ConnFail
    \/ Reconnect
    \/ Stop
    \/ SeedStep

SpecSeed == InitSeed /\ [][NextSeed]_vars

-----------------------------------------------------------------------------
(* Properties *)

SubmitDone(s) == req[s].kind = "submit" /\ req[s].pc = "done"

\* C1: after any successful submissions the store holds at most one
\* ValidationResult per (userId, videoId), and that record carries the
\* selectedSign and the timestamp of the last submission applied for the pair:
\* a resubmission overwrites the record instead of adding a second one.
C1_OneResultPerPairLatestSign ==
    \A p \in Pairs :
        LET at == ResultAt(results, p[1], p[2])
        IN /\ Cardinality(at) <= 1
           /\ lastWrite[p].set <=> at # {}
           /\ \A i \in at :
                /\ results[i].selectedSign = lastWrite[p].sign
                /\ results[i].timestamp = lastWrite[p].ts

\* A pair answered "A" and then resubmitted with "B": one record, holding "B"
C1_Witness ==
    \E p \in Pairs :
        /\ lastWrite[p].prev = "A"
        /\ lastWrite[p].sign = "B"
        /\ Len(results) = 1
        /\ results[1].selectedSign = "B"
        /\ results[1].timestamp = 2

\* C3: two submissions of one pair that has no record yet, interleaved at the
\* store, never leave two records for the pair; a request whose upsert lets
\* E11000 surface is answered 409, and one whose store operation fails in any
\* other way is answered 500.
C3_RaceOneRecordAnd409 ==
    /\ \A userId \in {1, 2}, videoId \in {"v1", "v2"} :
          Cardinality({i \in DOMAIN results :
                          /\ results[i].userId = userId
                          /\ results[i].videoId = videoId}) <= 1
    /\ \A s \in Slots :
          SubmitDone(s) =>
             /\ req[s].err = "E11000" => req[s].status = 409
             /\ req[s].err \in {"store", "cast"} => req[s].status = 500
             /\ req[s].status = 409 => req[s].err = "E11000"

\* Both requests found no record; one inserted, the other was refused by the
\* unique index and answered 409
C3_Witness ==
    /\ SubmitDone(1) /\ SubmitDone(2)
    /\ req[1].status = 200 /\ req[2].status = 409
    /\ req[1].in.body.userId = req[2].in.body.userId
    /\ req[1].in.body.videoId = req[2].in.body.videoId
    /\ Len(results) = 1

\* The values the presence check of /api/submit must refuse
AbsentValues == {Undef, Num(0), Str("")}

\* C4: a submission whose userId, videoId or selectedSign is missing or falsy
\* (a numeric userId of 0 included) is answered 400 in the step that receives
\* it, and that step leaves the three collections as they were.
C4_MissingFieldIs400 ==
    [][\A s \in Slots :
          ( /\ req[s].pc = "free"
            /\ req'[s].kind = "submit"
            /\ \/ req'[s].in.body.userId \in AbsentValues
               \/ req'[s].in.body.videoId \in AbsentValues
               \/ req'[s].in.body.selectedSign \in AbsentValues )
          => /\ req'[s].pc = "done"
             /\ req'[s].status = 400
             /\ results' = results
             /\ videos' = videos
             /\ handSigns' = handSigns]_vars

\* userId 0 with the two other fields present: answered 400, nothing stored
C4_Witness ==
    \E s \in Slots :
        /\ SubmitDone(s)
        /\ req[s].in.body.userId = Num(0)
        /\ req[s].in.body.videoId = Str("v1")
        /\ req[s].in.body.selectedSign = Str("A")
        /\ req[s].status = 400
        /\ results = <<>>

\* The (username, password) pairs that may log in, and what the response shows
Accounts ==
    { [username |-> "user1", password |-> "password1",
       shown |-> [id |-> 1, username |-> "user1", name |-> "User One"]],
      [username |-> "user2", password |-> "password2",
       shown |-> [id |-> 2, username |-> "user2", name |-> "User Two"]],
      [username |-> "user3", password |-> "password3",
       shown |-> [id |-> 3, username |-> "user3", name |-> "User Three"]],
      [username |-> "user4", password |-> "password4",
       shown |-> [id |-> 4, username |-> "user4", name |-> "User Four"]] }

LoginMatches(in) ==
    {a \in Accounts : in.username = Str(a.username) /\ in.password = Str(a.password)}

\* C5: login succeeds exactly for the (username, password) of one of the four
\* users, compared case-sensitively; the success response shows that user's
\* id, username and name and no password; any other pair gets 401; and no
\* step of a login changes the user list or the store.
C5_LoginExactMatchNoPassword ==
    /\ [](\A s \in Slots :
            req[s].kind = "login" =>
               LET m == LoginMatches(req[s].in)
               IN IF m # {}
                  THEN /\ req[s].status = 200
                       /\ req[s].out.success
                       /\ \E a \in m : req[s].out.user = a.shown
                       /\ "password" \notin DOMAIN req[s].out.user
                  ELSE /\ req[s].status = 401
                       /\ ~req[s].out.success)
    /\ [][users' = users /\ results' = results /\ videos' = videos
          /\ handSigns' = handSigns]_vars

\* user1/password1 is let in while User1/password1 is refused
C5_Witness ==
    /\ req[1].kind = "login" /\ req[2].kind = "login"
    /\ req[1].in = [username |-> Str("user1"), password |-> Str("password1")]
    /\ req[1].status = 200
    /\ req[1].out.user = [id |-> 1, username |-> "user1", name |-> "User One"]
    /\ req[2].in = [username |-> Str("User1"), password |-> Str("password1")]
    /\ req[2].status = 401

\* The user a numeric path parameter of the model names
NumericParams == {<<"1">>, <<"2">>}
UserOfParam(param) == IF param = <<"1">> THEN 1 ELSE 2

\* p is c / t * 100 rounded to the nearest integer, halves upwards
IsRounded(p, c, t) == 2 * t * p <= 200 * c + t /\ 200 * c + t < 2 * t * (p + 1)

ProgressOk(s) ==
    req[s].kind = "progress" /\ req[s].pc = "done" /\ req[s].status = 200

C10_ProgressWithinTotal ==
    \A s \in Slots :
        ProgressOk(s) =>
           /\ req[s].out.completed <= req[s].out.total
           /\ 0 <= req[s].out.percentage
           /\ req[s].out.percentage <= 100

NeverOpened == proc = "up" /\ conn \in {"connecting", "failed"}

\* C8: in every run seedDatabase is started at most once and only after the
\* connection has opened; while the connection has not opened seeding has not
\* run, the listener is up, the requests that touch the store are answered
\* with an error status, and a login with a user's credentials is answered 200.
C8_SeedOnceAfterOpen ==
    /\ seedStarts <= 1
    /\ seedStarts = 1 => conn = "open"
    /\ seed.pc # "idle" => conn = "open" /\ seedStarts = 1
    /\ NeverOpened =>
          /\ seedStarts = 0
          /\ listening
          /\ \A s \in Slots :
                req[s].pc = "done" =>
                   /\ req[s].kind \in {"handsigns", "videos", "submit", "progress"}
                        => req[s].status >= 400
                   /\ ( /\ req[s].kind = "login"
                        /\ LoginMatches(req[s].in) # {} ) => req[s].status = 200

\* The connection failed: a submission is answered 500, a login 200
C8_Witness ==
    /\ conn = "failed" /\ listening /\ seedStarts = 0
    /\ SubmitDone(1) /\ req[1].status = 500
    /\ req[1].in.body.selectedSign = Str("A")
    /\ req[2].kind = "login" /\ req[2].status = 200

FileBad(file) == file.state # "ok"

\* C7 as claimed: if handsigns.json or videos.json is absent or malformed when
\* seedDatabase runs, the run inserts no HandSign and no Video, and no
\* exception escapes.
C7_BadFileNothingSeeded ==
    /\ ~seed.escaped
    /\ \A k \in DOMAIN seedLog :
          (FileBad(handsignsFile) \/ FileBad(videosFile))
             => seedLog[k].signs = 0 /\ seedLog[k].vids = 0

\* C7, amended: a run inserts nothing from a file that is absent or malformed
\* (no HandSign when it is handsigns.json, no Video when it is videos.json),
\* no exception escapes seedDatabase, and a finished run that met such a file
\* with its collection empty has logged an error.
C7_BadFileNothingFromIt ==
    /\ ~seed.escaped
    /\ \A k \in DOMAIN seedLog :
          /\ FileBad(handsignsFile) => seedLog[k].signs = 0
          /\ FileBad(videosFile) => seedLog[k].vids = 0
          /\ ( /\ seedLog[k].done
               /\ \/ FileBad(handsignsFile) /\ handSigns = <<>>
                  \/ FileBad(videosFile) /\ videos = <<>> )
             => seedLog[k].errs >= 1

\* videos.json is absent: the run has inserted the labels, no video, logged
\* the error and returned
C7_Witness ==
    /\ videosFile.state = "absent"
    /\ Len(seedLog) = 1
    /\ seedLog[1].done
    /\ seedLog[1].signs = 2
    /\ seedLog[1].vids = 0
    /\ seedLog[1].errs = 1
    /\ seed = SeedReturn

NoTwoShareName(coll) ==
    \A i, j \in DOMAIN coll : coll[i].name = coll[j].name => i = j

NoTwoShareId(coll) ==
    \A i, j \in DOMAIN coll : coll[i].id = coll[j].id => i = j

\* C2: two seedDatabase calls in succession on the same files, with no failure
\* on the store's side: no two HandSigns share a name, no two Videos share an
\* id, the second call inserts no HandSign and no Video, and no
\* ValidationResult is created, changed or removed.
C2_SecondSeedInsertsNothing ==
    ( /\ Len(seedLog) = 2
      /\ seedLog[1].done /\ seedLog[2].done
      /\ ~seedLog[1].faulted /\ ~seedLog[2].faulted )
    => /\ NoTwoShareName(handSigns)
       /\ NoTwoShareId(videos)
       /\ seedLog[2].signs = 0
       /\ seedLog[2].vids = 0
       /\ results = seedLog[1].results0

\* The first entries of the batches of videos.json
BatchStarts == {i \in 1..Len(videosFile.data) : i % BATCH_SIZE = 1 % BATCH_SIZE}

BatchOf(i) == {j \in 1..Len(videosFile.data) : i <= j /\ j < i + BATCH_SIZE}

Upserted(entry) ==
    \E i \in DOMAIN videos :
        videos[i] = [id |-> entry.path, path |-> entry.path,
                     correctSign |-> entry.correctSign]

\* C9: in part_000, whatever happens in the label step, the video step runs:
\* a finished call whose Video.countDocuments() did not fail has written every
\* batch of videos.json, and every entry of a batch that did not fail is in
\* the collection.
C9_VideoStepAlwaysRuns ==
    \A k \in DOMAIN seedLog :
        ( /\ build = "part_000"
          /\ videosFile.state = "ok"
          /\ seedLog[k].done
          /\ ~seedLog[k].countFault )
        => /\ seedLog[k].batches = BatchStarts
           /\ \A b \in BatchStarts \ seedLog[k].failed :
                 \A j \in BatchOf(b) : Upserted(videosFile.data[j])

\* The half of C9 that the code keeps: once the loop over the batches has
\* been entered, a failed batch does not keep the later ones from being
\* written.
C9_FailedBatchDoesNotStopLater ==
    \A k \in DOMAIN seedLog :
        ( /\ build = "part_000"
          /\ seedLog[k].done
          /\ seedLog[k].batches # {} )
        => /\ seedLog[k].batches = BatchStarts
           /\ \A b \in BatchStarts \ seedLog[k].failed :
                 \A j \in BatchOf(b) : Upserted(videosFile.data[j])

====
